---- MODULE Spec2Model ----
(***************************************************************************)
(* Model of src/src/app/components/Header.tsx: the chat page               *)
(* (OptimizedChatPage: input box, debounced sendMessage, POST /chat) and   *)
(* the message-content parser (parseMessageContent and its helpers).       *)
(*                                                                         *)
(* JavaScript strings are modelled as sequences of one-character strings,  *)
(* so that trim, split, substring and the regular expressions of the       *)
(* source are computed character by character.                             *)
(***************************************************************************)
EXTENDS Integers, Sequences, FiniteSets, TLC

VARIABLES
    inputMessage,   \* useState("")   line 600
    isLoading,      \* useState(false) line 601
    messages,       \* useState<Message[]>([]) line 602
    sessionId,      \* useState("") line 606
    timers,         \* pending trailing invocations of debounced sendMessage instances, oldest first
    curArmed,       \* TRUE iff the sendMessage instance of the current render has a pending timer
    requests,       \* POST /chat calls whose promise has not settled, in issue order
    outcome,        \* how the most recently settled fetch ended ("none" before the first)
    lastOkSid,      \* session id stored by the most recent successfully settled response
    sinceTrigger,   \* ms since the last submit trigger, capped at DebounceWait
    burstPosts,     \* POSTs issued by closures triggered in the current burst of triggers
    content,        \* the text handed to parseMessageContent
    parts,          \* the ParsedContent[] it returned
    parsePc,        \* "idle" before the call, "done" after it
    embedPc,        \* StableImageEmbed: "none" (not on the page), "new" (first render committed), "mounted" (effect has run)
    src,            \* its src prop
    imgIsLoading,   \* its useState(true)  line 92 (isLoading of StableImageEmbed)
    hasError,       \* its useState(false) line 93
    retryCount,     \* its useState(0)     line 94
    renderedRetryCount, \* retryCount as the onError closure of the committed render sees it
    imgSrc,         \* the src attribute of the <img> element; <<>> while no <img> is rendered
    imgRequest,     \* "loading" while the element is fetching imgSrc, else "idle"
    retryTimers,    \* pending setTimeout callbacks of onError, oldest first
    reloads,        \* reload attempts scheduled so far
    lastImgEvent    \* the last event of the element: "none", "load" or "error"

vars == <<inputMessage, isLoading, messages, sessionId, timers, curArmed, requests,
          outcome, lastOkSid, sinceTrigger, burstPosts, content, parts, parsePc,
          embedPc, src, imgIsLoading, hasError, retryCount, renderedRetryCount,
          imgSrc, imgRequest, retryTimers, reloads, lastImgEvent>>

chatVars == <<inputMessage, isLoading, messages, sessionId, timers, curArmed, requests,
              outcome, lastOkSid, sinceTrigger, burstPosts>>

parseVars == <<content, parts, parsePc>>

imageVars == <<embedPc, src, imgIsLoading, hasError, retryCount, renderedRetryCount,
               imgSrc, imgRequest, retryTimers, reloads, lastImgEvent>>

(***************************************************************************)
(* Bounds of the model                                                     *)
(***************************************************************************)
MaxMessages == 6      \* messages the conversation may grow to
TicksPerWindow == 2   \* clock steps per debounce window

(***************************************************************************)
(* String helpers (String.prototype.trim, concatenation)                   *)
(***************************************************************************)
\* White space as String.prototype.trim and the regex class \s see it.
WhiteSpace == {" ", "\t", "\n", "\r"}

RECURSIVE TrimStart(_)
TrimStart(s) ==
    IF s # <<>> /\ Head(s) \in WhiteSpace THEN TrimStart(Tail(s)) ELSE s

RECURSIVE TrimEnd(_)
TrimEnd(s) ==
    IF s # <<>> /\ s[Len(s)] \in WhiteSpace THEN TrimEnd(SubSeq(s, 1, Len(s) - 1)) ELSE s

Trim(s) == TrimEnd(TrimStart(s))

Min(a, b) == IF a < b THEN a ELSE b
Max(a, b) == IF a > b THEN a ELSE b

(***************************************************************************)
(* The chat page                                                           *)
(***************************************************************************)
DebounceWait == 300

TickMs == DebounceWait \div TicksPerWindow

\* Texts the user may put in the textarea.
InputTexts == { <<>>, <<" ">>, <<"a">>, <<"b", " ">> }

\* data.data.message values of a 2xx JSON body; <<>> stands for a missing or empty one.
ReplyTexts == { <<>>, <<"o", "k">> }

\* data.data.session_id values of a 2xx JSON body; "" stands for a missing or empty one.
SessionIds == { "", "s1", "s2" }

FallbackText == <<"I"," ","c","o","u","l","d","n","'","t"," ","p","r","o","c","e","s","s"," ","t","h","a","t"," ","r","e","q","u","e","s","t",".">>

ApologyText == <<"S","o","r","r","y",","," ","t","h","e","r","e"," ","w","a","s"," ","a","n"," ","e","r","r","o","r"," ","p","r","o","c","e","s","s","i","n","g"," ","y","o","u","r"," ","r","e","q","u","e","s","t",".">>

\* Ways a fetch can fail to produce an assistant reply.
\*   http_error: res.ok is false; parse_error: res.json() rejects;
\*   transport_error: fetch rejects; null_body: the body is the JSON value null,
\*   so data?.data?.session_id is undefined and data.data throws.
FailureKinds == {"http_error", "parse_error", "transport_error", "null_body"}

Message(text, fromUser) == [content |-> text, isUser |-> fromUser]

\* The values a debounced closure captured from its render (useCallback deps).
Closure == [inputMessage |-> inputMessage, isLoading |-> isLoading,
            sessionId |-> sessionId, remaining |-> DebounceWait, burst |-> TRUE]

\* Guard of the debounced function: trimmed captured input non-empty, captured flag false.
SendGuard(c) ==
    LET currentMessage == Trim(c.inputMessage)
    IN  ~(currentMessage = <<>> \/ c.isLoading)

\* useCallback keeps the memoized instance only while the deps are unchanged.
DepsUnchanged ==
    /\ inputMessage' = inputMessage
    /\ isLoading' = isLoading
    /\ sessionId' = sessionId

\* No StableImageEmbed is on the page.
NoImage ==
    /\ embedPc = "none"
    /\ src = <<>>
    /\ imgIsLoading = TRUE
    /\ hasError = FALSE
    /\ retryCount = 0
    /\ renderedRetryCount = 0
    /\ imgSrc = <<>>
    /\ imgRequest = "idle"
    /\ retryTimers = <<>>
    /\ reloads = 0
    /\ lastImgEvent = "none"

ChatInit ==
    /\ inputMessage = <<>>
    /\ isLoading = FALSE
    /\ messages = <<>>
    /\ sessionId = ""
    /\ timers = <<>>
    /\ curArmed = FALSE
    /\ requests = <<>>
    /\ outcome = "none"
    /\ lastOkSid = ""
    /\ sinceTrigger = DebounceWait
    /\ burstPosts = 0

\* onChange of the textarea (disabled while isLoading).
HandleInputChange(v) ==
    /\ ~isLoading
    /\ v # inputMessage
    /\ inputMessage' = v
    /\ curArmed' = FALSE
    /\ UNCHANGED <<isLoading, messages, sessionId, timers, requests, outcome,
                   lastOkSid, sinceTrigger, burstPosts, parseVars, imageVars>>

\* A call of the current debounced sendMessage instance: (re)starts its timer.
\* The first conjunct keeps the conversation within MaxMessages: every pending
\* timer may add a user and an assistant message, every pending request one.
CallSendMessage ==
    /\ Len(messages) + 2 * Len(timers) + Len(requests) + 2 <= MaxMessages + (IF curArmed THEN 2 ELSE 0)
    /\ LET newBurst == sinceTrigger >= DebounceWait
           old == IF newBurst
                  THEN [i \in 1..Len(timers) |-> [timers[i] EXCEPT !.burst = FALSE]]
                  ELSE timers
       IN  /\ IF curArmed
              THEN timers' = [old EXCEPT ![Len(old)] = [@ EXCEPT !.remaining = DebounceWait, !.burst = TRUE]]
              ELSE timers' = Append(old, Closure)
           /\ burstPosts' = IF newBurst THEN 0 ELSE burstPosts
    /\ curArmed' = TRUE
    /\ sinceTrigger' = 0
    /\ UNCHANGED <<inputMessage, isLoading, messages, sessionId, requests, outcome, lastOkSid, parseVars, imageVars>>

\* onKeyDown of the textarea: Enter without Shift.
HandleKeyDown ==
    /\ ~isLoading
    /\ CallSendMessage

\* onClick of the send button (disabled while loading or when the input is blank).
ButtonClick ==
    /\ ~(isLoading \/ Trim(inputMessage) = <<>>)
    /\ CallSendMessage

\* Time passes; a timer that is due runs before time passes further.
Tick ==
    /\ \A i \in 1..Len(timers) : timers[i].remaining > 0
    /\ timers # <<>> \/ sinceTrigger < DebounceWait
    /\ timers' = [i \in 1..Len(timers) |->
                    [timers[i] EXCEPT !.remaining = Max(0, @ - TickMs)]]
    /\ sinceTrigger' = Min(DebounceWait, sinceTrigger + TickMs)
    /\ UNCHANGED <<inputMessage, isLoading, messages, sessionId, curArmed, requests,
                   outcome, lastOkSid, burstPosts, parseVars, imageVars>>

\* The trailing edge of the oldest pending instance: the async function runs up to its await.
TimerExpired ==
    /\ timers # <<>>
    /\ timers[1].remaining = 0
    /\ LET c == timers[1]
           currentMessage == Trim(c.inputMessage)
       IN  IF SendGuard(c)
           THEN /\ messages' = Append(messages, Message(currentMessage, TRUE))
                /\ inputMessage' = <<>>
                /\ isLoading' = TRUE
                /\ requests' = Append(requests, [query |-> currentMessage, session_id |-> c.sessionId])
                /\ burstPosts' = IF c.burst THEN burstPosts + 1 ELSE burstPosts
           ELSE UNCHANGED <<messages, inputMessage, isLoading, requests, burstPosts>>
    /\ timers' = Tail(timers)
    /\ UNCHANGED <<sessionId, outcome, lastOkSid, sinceTrigger, parseVars, imageVars>>
    /\ curArmed' = (curArmed /\ Len(timers) > 1 /\ DepsUnchanged)

\* SettleSuccess without the fallback text: a body with no message appends nothing.
SettleSuccessNoFallback(i, m, s) ==
    /\ i \in 1..Len(requests)
    /\ sessionId' = s
    /\ messages' = IF m # <<>> THEN Append(messages, Message(m, FALSE)) ELSE messages
    /\ isLoading' = FALSE
    /\ requests' = [j \in 1..(Len(requests) - 1) |-> IF j < i THEN requests[j] ELSE requests[j + 1]]
    /\ outcome' = "ok"
    /\ lastOkSid' = s
    /\ UNCHANGED <<inputMessage, timers, sinceTrigger, burstPosts, parseVars, imageVars>>
    /\ curArmed' = (curArmed /\ DepsUnchanged)

\* Request i settles with a 2xx JSON body carrying message m and session id s.
SettleSuccess(i, m, s) ==
    /\ i \in 1..Len(requests)
    /\ sessionId' = s
    /\ messages' = Append(messages, Message(IF m # <<>> THEN m ELSE FallbackText, FALSE))
    /\ isLoading' = FALSE
    /\ requests' = [j \in 1..(Len(requests) - 1) |-> IF j < i THEN requests[j] ELSE requests[j + 1]]
    /\ outcome' = "ok"
    /\ lastOkSid' = s
    /\ UNCHANGED <<inputMessage, timers, sinceTrigger, burstPosts, parseVars, imageVars>>
    /\ curArmed' = (curArmed /\ DepsUnchanged)

\* SettleFailure with setIsLoading(false) left out of the cleanup path.
SettleFailureNoFinally(i, kind) ==
    /\ i \in 1..Len(requests)
    /\ kind \in FailureKinds
    /\ sessionId' = IF kind = "null_body" THEN "" ELSE sessionId
    /\ messages' = Append(messages, Message(ApologyText, FALSE))
    /\ isLoading' = isLoading
    /\ requests' = [j \in 1..(Len(requests) - 1) |-> IF j < i THEN requests[j] ELSE requests[j + 1]]
    /\ outcome' = kind
    /\ UNCHANGED <<inputMessage, timers, lastOkSid, sinceTrigger, burstPosts, parseVars, imageVars>>
    /\ curArmed' = (curArmed /\ DepsUnchanged)

\* Request i settles in the catch path.
SettleFailure(i, kind) ==
    /\ i \in 1..Len(requests)
    /\ kind \in FailureKinds
    /\ sessionId' = IF kind = "null_body" THEN "" ELSE sessionId
    /\ messages' = Append(messages, Message(ApologyText, FALSE))
    /\ isLoading' = FALSE
    /\ requests' = [j \in 1..(Len(requests) - 1) |-> IF j < i THEN requests[j] ELSE requests[j + 1]]
    /\ outcome' = kind
    /\ UNCHANGED <<inputMessage, timers, lastOkSid, sinceTrigger, burstPosts, parseVars, imageVars>>
    /\ curArmed' = (curArmed /\ DepsUnchanged)

Next ==
    \/ \E v \in InputTexts : HandleInputChange(v)
    \/ HandleKeyDown
    \/ ButtonClick
    \/ Tick
    \/ TimerExpired
    \/ \E i \in 1..MaxMessages, m \in ReplyTexts, s \in SessionIds : SettleSuccess(i, m, s)
    \/ \E i \in 1..MaxMessages, k \in FailureKinds : SettleFailure(i, k)

Init ==
    /\ ChatInit
    /\ content = <<>>
    /\ parts = <<>>
    /\ parsePc = "idle"
    /\ NoImage

Spec == Init /\ [][Next]_vars

(***************************************************************************)
(* The content parser: regular expressions of the source, computed on      *)
(* character sequences                                                     *)
(***************************************************************************)
LinkTextMax == 50
LinkTextKeep == 47
VideoIdLen == 11

UpperLetters == <<"A","B","C","D","E","F","G","H","I","J","K","L","M","N","O","P","Q","R","S","T","U","V","W","X","Y","Z">>
LowerLetters == <<"a","b","c","d","e","f","g","h","i","j","k","l","m","n","o","p","q","r","s","t","u","v","w","x","y","z">>
Digits == <<"0","1","2","3","4","5","6","7","8","9">>

Range(f) == { f[i] : i \in DOMAIN f }

\* Case folding of the /i flag (ASCII letters).
LowerChar(c) ==
    IF c \in Range(UpperLetters)
    THEN LowerLetters[CHOOSE i \in 1..Len(UpperLetters) : UpperLetters[i] = c]
    ELSE c

LowerStr(s) == [i \in 1..Len(s) |-> LowerChar(s[i])]

\* Characters the regex atom . does not match.
LineTerminators == {"\n", "\r"}

\* [a-zA-Z0-9_-]
VideoIdChars == Range(UpperLetters) \cup Range(LowerLetters) \cup Range(Digits) \cup {"_", "-"}

\* TRUE iff lit occurs in s starting at position p.
StartsWithAt(s, p, l) ==
    /\ p >= 1
    /\ p + Len(l) - 1 <= Len(s)
    /\ SubSeq(s, p, p + Len(l) - 1) = l

\* String.prototype.includes
Includes(s, l) == \E p \in 1..(Len(s) + 1) : StartsWithAt(s, p, l)

\* The regex assertion $ (no m flag) at position p of s.
EndOfInput(s, p) == p = Len(s) + 1

\* String.prototype.split("\n")
RECURSIVE SplitLines(_)
SplitLines(s) ==
    IF \E i \in 1..Len(s) : s[i] = "\n"
    THEN LET i == CHOOSE k \in 1..Len(s) : s[k] = "\n" /\ \A j \in 1..(k - 1) : s[j] # "\n"
         IN  <<SubSeq(s, 1, i - 1)>> \o SplitLines(SubSeq(s, i + 1, Len(s)))
    ELSE <<s>>

\* line.match(/^<prefix>(.+)$/i): <<group 1>> on a match, <<>> for null.
SentinelMatch(prefix, line) ==
    IF /\ Len(line) > Len(prefix)
       /\ LowerStr(SubSeq(line, 1, Len(prefix))) = LowerStr(prefix)
       /\ \A i \in (Len(prefix) + 1)..Len(line) : line[i] \notin LineTerminators
    THEN <<SubSeq(line, Len(prefix) + 1, Len(line))>>
    ELSE <<>>

ImagePrefix == <<"I","m","a","g","e"," ","U","R","L",":"," ">>
VideoPrefix == <<"V","i","d","e","o"," ","U","R","L",":"," ">>
NAText == <<"N", "/", "A">>

\* /https?:\/\/(?:www\.)?(?:youtube\.com\/(?:watch\?v=|embed\/)|youtu\.be\/)([a-zA-Z0-9_-]{11})/
YoutubePrefixes ==
    { scheme \o www \o host :
        scheme \in { <<"h","t","t","p",":","/","/">>, <<"h","t","t","p","s",":","/","/">> },
        www \in { <<>>, <<"w","w","w",".">> },
        host \in { <<"y","o","u","t","u","b","e",".","c","o","m","/","w","a","t","c","h","?","v","=">>, <<"y","o","u","t","u","b","e",".","c","o","m","/","e","m","b","e","d","/">>, <<"y","o","u","t","u",".","b","e","/">> } }

\* The places and prefixes at which the YouTube pattern matches in url.
YoutubeHits(url) ==
    { pr \in (1..Len(url)) \X YoutubePrefixes :
        /\ StartsWithAt(url, pr[1], pr[2])
        /\ pr[1] + Len(pr[2]) + VideoIdLen - 1 <= Len(url)
        /\ \A k \in 0..(VideoIdLen - 1) : url[pr[1] + Len(pr[2]) + k] \in VideoIdChars }

\* Group 1 of the match h = <<place, prefix>>.
VideoIdOf(url, h) ==
    <<SubSeq(url, h[1] + Len(h[2]), h[1] + Len(h[2]) + VideoIdLen - 1)>>

\* Group 1 of the leftmost of the matches hits, or <<>> when there is none.
FirstVideoId(url, hits) ==
    IF hits = {} THEN <<>>
    ELSE VideoIdOf(url, CHOOSE x \in hits : \A y \in hits : x[1] <= y[1])

\* url.match(youtube regex): <<video id>> for the leftmost match, <<>> for null.
YoutubeMatch(url) == FirstVideoId(url, YoutubeHits(url))

ImageExtensions == { <<"j","p","g">>, <<"j","p","e","g">>, <<"p","n","g">>, <<"g","i","f">>, <<"w","e","b","p">>, <<"s","v","g">>, <<"b","m","p">> }

\* url.match(/\.(jpg|jpeg|png|gif|webp|svg|bmp)(\?.*)?$/i) !== null
ImageExtensionMatch(url) ==
    \E p \in 1..Len(url), ext \in ImageExtensions :
        /\ url[p] = "."
        /\ p + Len(ext) <= Len(url)
        /\ LowerStr(SubSeq(url, p + 1, p + Len(ext))) = ext
        /\ LET q == p + Len(ext) + 1
           IN  \/ EndOfInput(url, q)
               \/ /\ q <= Len(url)
                  /\ url[q] = "?"
                  /\ \A k \in (q + 1)..Len(url) : url[k] \notin LineTerminators

\* url.length > 50 ? url.substring(0, 47) + "..." : url
TruncatedLinkText(url) ==
    IF Len(url) > LinkTextMax THEN SubSeq(url, 1, LinkTextKeep) \o <<".", ".", ".">> ELSE url

TextPart(text) == [type |-> "text", content |-> text]
YoutubePart(url, id) == [type |-> "youtube", content |-> url, videoId |-> id]
ImagePart(url, altText) == [type |-> "image", content |-> url, alt |-> altText]
LinkPart(target, text) == [type |-> "link", content |-> target, url |-> target, linkText |-> text]

DefaultSentinelAlt == <<"I","n","s","t","a","l","l","a","t","i","o","n"," ","g","u","i","d","e"," ","i","m","a","g","e">>
DefaultChatAlt == <<"I","m","a","g","e"," ","f","r","o","m"," ","c","h","a","t">>

\* The matches of the source's markdown-link pattern in s, as it is written:
\*   \[ ([^\]]{minText,}) \] $ $ ([^)]+) $ $
\* i is the place of "[", j of "]", k the last place of group 2; the two $ after
\* "]" and the two after group 2 are end-of-input assertions.
MarkdownLinkHitsAt(s, minText, i, j) ==
    { <<i, j, k>> :
        k \in { k \in (j + 1)..Len(s) :
                  /\ j - i - 1 >= minText
                  /\ EndOfInput(s, j + 1)
                  /\ EndOfInput(s, j + 1)
                  /\ \A m \in (j + 1)..k : s[m] # ")"
                  /\ EndOfInput(s, k + 1)
                  /\ EndOfInput(s, k + 1) } }

MarkdownLinkHits(s, minText) ==
    UNION { MarkdownLinkHitsAt(s, minText, i,
                CHOOSE j \in (i + 1)..Len(s) :
                    s[j] = "]" /\ \A m \in (i + 1)..(j - 1) : s[m] # "]") :
            i \in { i \in 1..Len(s) : s[i] = "[" /\ \E j \in (i + 1)..Len(s) : s[j] = "]" } }

\* The match object of hit h = <<i, j, k>>; next is the position after the match.
MarkdownMatchOf(s, h) ==
    [index |-> h[1],
     text |-> SubSeq(s, h[1] + 1, h[2] - 1),
     url |-> SubSeq(s, h[2] + 1, h[3]),
     next |-> h[3] + 1]

\* The leftmost of hits, its group 2 greedy: <<match>>, or <<>> when there is none.
FirstMarkdownMatch(s, hits) ==
    IF hits = {} THEN <<>>
    ELSE <<MarkdownMatchOf(s, CHOOSE x \in hits :
                \A y \in hits : x[1] < y[1] \/ (x[1] = y[1] /\ x[3] >= y[3]))>>

\* The match exec/match returns when searching from position from; <<>> for null.
MarkdownLinkMatch(s, minText, from) ==
    FirstMarkdownMatch(s, { h \in MarkdownLinkHits(s, minText) : h[1] >= from })

\* s.replace(/<d>(.*?)<d>/g, open + "$1" + close) for a literal delimiter d.
\* The least element of a non-empty set of numbers.
Least(S) == CHOOSE x \in S : \A y \in S : x <= y

\* Where a closing delimiter d can stand when s opens with d: (.*?) between them.
ClosingPlaces(s, d) ==
    { k \in (Len(d) + 1)..Len(s) :
        /\ StartsWithAt(s, 1, d)
        /\ StartsWithAt(s, k, d)
        /\ \A m \in (Len(d) + 1)..(k - 1) : s[m] \notin LineTerminators }

RECURSIVE ReplaceDelimited(_, _, _, _)
ReplaceDelimitedAt(s, d, open, close, ends) ==
    IF ends # {}
    THEN open \o SubSeq(s, Len(d) + 1, Least(ends) - 1) \o close
           \o ReplaceDelimited(SubSeq(s, Least(ends) + Len(d), Len(s)), d, open, close)
    ELSE <<Head(s)>> \o ReplaceDelimited(Tail(s), d, open, close)

ReplaceDelimited(s, d, open, close) ==
    IF s = <<>> THEN <<>> ELSE ReplaceDelimitedAt(s, d, open, close, ClosingPlaces(s, d))

\* .replace(/\*\*(.*?)\*\*/g, "<strong>$1</strong>")
ReplaceBold(s) == ReplaceDelimited(s, <<"*", "*">>, <<"<","s","t","r","o","n","g",">">>, <<"<","/","s","t","r","o","n","g",">">>)

\* .replace(/\*(.*?)\*/g, "<em>$1</em>")
ReplaceItalic(s) == ReplaceDelimited(s, <<"*">>, <<"<","e","m",">">>, <<"<","/","e","m",">">>)

\* .replace(/\n/g, "<br/>")
RECURSIVE ReplaceNewlines(_)
ReplaceNewlines(s) ==
    IF s = <<>> THEN <<>>
    ELSE (IF Head(s) = "\n" THEN <<"<","b","r","/",">">> ELSE <<Head(s)>>) \o ReplaceNewlines(Tail(s))

\* /(https?:\/\/[^\s]+)/ matches at position q of s.
UrlStartsAt(s, q) ==
    \/ /\ StartsWithAt(s, q, <<"h","t","t","p",":","/","/">>)
       /\ q + 7 <= Len(s)
       /\ s[q + 7] \notin WhiteSpace
    \/ /\ StartsWithAt(s, q, <<"h","t","t","p","s",":","/","/">>)
       /\ q + 8 <= Len(s)
       /\ s[q + 8] \notin WhiteSpace

\* text.split(/(https?:\/\/[^\s]+)/g): text, url, text, url, ..., text
RECURSIVE SplitUrls(_)
\* The URL that starts at q runs up to the next white space, at place e, or to the end.
SplitUrlFromTo(s, q, e) ==
    <<SubSeq(s, 1, q - 1), SubSeq(s, q, e - 1)>> \o SplitUrls(SubSeq(s, e, Len(s)))

SplitUrlFrom(s, q, stops) ==
    SplitUrlFromTo(s, q, IF stops = {} THEN Len(s) + 1 ELSE Least(stops))

SplitUrlsAt(s, starts) ==
    IF starts = {} THEN <<s>>
    ELSE SplitUrlFrom(s, Least(starts),
                      { e \in Least(starts)..Len(s) : s[e] \in WhiteSpace })

SplitUrls(s) == SplitUrlsAt(s, { q \in 1..Len(s) : UrlStartsAt(s, q) })

\* PlainTextParts without the final trim().
PlainTextPartsNoTrim(part) ==
    IF Trim(part) # <<>>
    THEN <<TextPart(ReplaceNewlines(ReplaceItalic(ReplaceBold(part))))>>
    ELSE <<>>

\* The segment processPlainTextWithUrls pushes for a text part (index even), if any.
PlainTextParts(part) ==
    IF Trim(part) # <<>>
    THEN <<TextPart(Trim(ReplaceNewlines(ReplaceItalic(ReplaceBold(part)))))>>
    ELSE <<>>

\* The segment processPlainTextWithUrls pushes for a URL part (index odd).
ClassifyBareUrl(url, youtubeMatch) ==
    IF youtubeMatch # <<>> THEN <<YoutubePart(url, youtubeMatch[1])>>
    ELSE IF ImageExtensionMatch(url) THEN <<ImagePart(url, DefaultChatAlt)>>
    ELSE <<LinkPart(url, TruncatedLinkText(url))>>

BareUrlOf(url) == ClassifyBareUrl(url, YoutubeMatch(url))

BareUrlParts(part) == BareUrlOf(Trim(part))

RECURSIVE ForEachTextPart(_, _)
ForEachTextPart(textParts, index) ==
    IF index > Len(textParts) THEN <<>>
    ELSE (IF (index - 1) % 2 = 0 THEN PlainTextParts(textParts[index])
                                 ELSE BareUrlParts(textParts[index]))
           \o ForEachTextPart(textParts, index + 1)

processPlainTextWithUrls(text) == ForEachTextPart(SplitUrls(text), 1)

\* The segment processTextWithLinks pushes for a markdown link [linkText](url).
ClassifyLinkedUrl(linkText, url, youtubeMatch) ==
        IF youtubeMatch # <<>> THEN <<YoutubePart(url, youtubeMatch[1])>>
        ELSE IF \/ ImageExtensionMatch(url)
                \/ Includes(url, <<"/","i","m","a","g","e","s","/">>)
                \/ Includes(url, <<"i","m","a","g","e">>)
             THEN <<ImagePart(url, IF linkText # <<>> THEN linkText ELSE DefaultChatAlt)>>
        ELSE <<LinkPart(url, linkText)>>

MarkdownLinkParts(linkText, url) == ClassifyLinkedUrl(linkText, url, YoutubeMatch(url))

\* The while loop of processTextWithLinks from lastIndex (from = lastIndex + 1):
\* [parts, from] when exec returns null.
RECURSIVE LinkLoop(_, _, _)
\* "Add text before the link"
BeforeLinkParts(beforeText) ==
    IF Len(beforeText) > 0 /\ Trim(beforeText) # <<>>
    THEN processPlainTextWithUrls(beforeText) ELSE <<>>

LinkLoopBody(text, from, acc, match) ==
    IF match = <<>> THEN [parts |-> acc, from |-> from]
    ELSE LinkLoop(text, match[1].next,
                  acc \o BeforeLinkParts(SubSeq(text, from, match[1].index - 1))
                      \o MarkdownLinkParts(match[1].text, match[1].url))

LinkLoop(text, from, acc) == LinkLoopBody(text, from, acc, MarkdownLinkMatch(text, 0, from))

\* "Add remaining text after the last link"
WithRemainingText(text, loop) ==
    IF loop.from - 1 < Len(text) /\ Trim(SubSeq(text, loop.from, Len(text))) # <<>>
    THEN loop.parts \o processPlainTextWithUrls(SubSeq(text, loop.from, Len(text)))
    ELSE loop.parts

\* "If no markdown links were found, process as plain text with URLs"
OrWholeText(text, found) ==
    IF Len(found) = 0 THEN processPlainTextWithUrls(text) ELSE found

processTextWithLinks(text) ==
    OrWholeText(text, WithRemainingText(text, LinkLoop(text, 1, <<>>)))

\* The segment pushed for an `Image URL: <value>` line whose value is not N/A.
ImageOf(imageContent, markdownLinkMatch) ==
    IF markdownLinkMatch # <<>>
    THEN <<ImagePart(markdownLinkMatch[1].url, markdownLinkMatch[1].text)>>
    ELSE <<ImagePart(imageContent, DefaultSentinelAlt)>>

ImageContentParts(imageContent) ==
    ImageOf(imageContent, MarkdownLinkMatch(imageContent, 1, 1))

ImageLineParts(value) == ImageContentParts(Trim(value))

\* VideoOf without the display-text truncation.
VideoOfNoTruncate(value, youtubeMatch) ==
    IF youtubeMatch # <<>>
    THEN <<YoutubePart(value, youtubeMatch[1])>>
    ELSE <<LinkPart(value, value)>>

\* The segment pushed for a `Video URL: <value>` line whose value is not N/A.
VideoOf(value, youtubeMatch) ==
    IF youtubeMatch # <<>>
    THEN <<YoutubePart(value, youtubeMatch[1])>>
    ELSE <<LinkPart(value, TruncatedLinkText(value))>>

VideoLineParts(value) == VideoOf(value, YoutubeMatch(value))

\* "If we have accumulated text, add it as a text part first": st is [parts, currentTextBlock].
FlushTextBlock(st) ==
    IF Trim(st.currentTextBlock) # <<>>
    THEN [parts |-> st.parts \o processTextWithLinks(st.currentTextBlock),
          currentTextBlock |-> <<>>]
    ELSE st

\* One iteration of the for loop of parseMessageContent.
\* flushed is st after the flush of the accumulated text.
ParseLineWith(st, line, imageUrlMatch, videoUrlMatch, flushed) ==
    IF imageUrlMatch # <<>> /\ Trim(imageUrlMatch[1]) # NAText
    THEN [flushed EXCEPT !.parts = @ \o ImageLineParts(imageUrlMatch[1])]
    ELSE IF imageUrlMatch # <<>> /\ Trim(imageUrlMatch[1]) = NAText
    THEN st
    ELSE IF videoUrlMatch # <<>> /\ Trim(videoUrlMatch[1]) # NAText
    THEN [flushed EXCEPT !.parts = @ \o VideoLineParts(videoUrlMatch[1])]
    ELSE IF videoUrlMatch # <<>> /\ Trim(videoUrlMatch[1]) = NAText
    THEN st
    ELSE [st EXCEPT !.currentTextBlock = @ \o line \o <<"\n">>]

ParseLine(st, line) ==
    ParseLineWith(st, line, SentinelMatch(ImagePrefix, line),
                  SentinelMatch(VideoPrefix, line), FlushTextBlock(st))

RECURSIVE ParseLines(_, _)
ParseLines(st, lines) ==
    IF lines = <<>> THEN st ELSE ParseLines(ParseLine(st, Head(lines)), Tail(lines))

NonBlankContent(part) == Trim(part.content) # <<>>

parseMessageContent(text) ==
    SelectSeq(FlushTextBlock(ParseLines([parts |-> <<>>, currentTextBlock |-> <<>>],
                                        SplitLines(text))).parts,
              NonBlankContent)

(***************************************************************************)
(* Rendering one message: OptimizedChatMessage parses message.content      *)
(***************************************************************************)
MaxLines == 2         \* lines of a message text

\* Array.prototype.join("\n")
RECURSIVE JoinLines(_)
JoinLines(lines) ==
    IF lines = <<>> THEN <<>>
    ELSE IF Len(lines) = 1 THEN lines[1]
    ELSE lines[1] \o <<"\n">> \o JoinLines(Tail(lines))

LongUrl == <<"h","t","t","p","s",":","/","/","e","x","a","m","p","l","e",".","c","o","m","/","a","-","p","a","g","e","-","w","h","o","s","e","-","a","d","d","r","e","s","s","-","i","s","-","l","o","n","g","e","r","-","t","h","a","n","-","f","i","f","t","y">>
DocsUrl == <<"h","t","t","p","s",":","/","/","e","x","a","m","p","l","e",".","c","o","m","/","r","e","f","e","r","e","n","c","e","-","g","u","i","d","e","-","t","h","a","t","-","i","s","-","q","u","i","t","e","-","l","o","n","g","-","i","n","d","e","e","d">>

\* Lines an assistant reply is composed of.
LineSamples ==
    { <<>>,
      <<" ">>,
      <<"h","i">>,
      <<"*","*","b","*","*"," ","*","i","*">>,
      <<" ","a","*","b">>,
      <<"s","e","e"," ","h","t","t","p","s",":","/","/","x","/","a",".","p","n","g">>,
      <<"I","m","a","g","e"," ","U","R","L",":"," ","N","/","A">>,
      <<"v","i","d","e","o"," ","u","r","l",":"," "," ","N","/","A"," ">>,
      <<"I","m","a","g","e"," ","U","R","L",":"," ","N","/","A","\r">>,
      <<"I","m","a","g","e"," ","U","R","L",":"," "," ">>,
      <<"V","i","d","e","o"," ","U","R","L",":"," "," ">>,
      <<"I","m","a","g","e"," ","U","R","L",":"," ","h","t","t","p","s",":","/","/","x","/","a",".","p","n","g">>,
      <<"I","m","a","g","e"," ","U","R","L",":"," ","[","d","i","a","g","r","a","m","]","(","h","t","t","p","s",":","/","/","x","/","a",".","p","n","g",")">>,
      <<"V","i","d","e","o"," ","U","R","L",":"," ","h","t","t","p","s",":","/","/","y","o","u","t","u",".","b","e","/","d","Q","w","4","w","9","W","g","X","c","Q">>,
      <<"V","i","d","e","o"," ","U","R","L",":"," ","h","t","t","p","s",":","/","/","e","x","a","m","p","l","e",".","c","o","m","/","p","a","g","e">>,
      VideoPrefix \o LongUrl,
      <<"h","t","t","p","s",":","/","/","y","o","u","t","u",".","b","e","/","d","Q","w","4","w","9","W","g","X","c","Q",".","p","n","g">>,
      <<"g","o"," ","h","t","t","p","s",":","/","/","x","/","i","m","a","g","e","s","/","a">>,
      <<"[","p","i","c","]","(","h","t","t","p","s",":","/","/","x","/","i","m","a","g","e","s","/","a",")">>,
      <<"S","e","e"," ","[","d","o","c","s","]","(","h","t","t","p","s",":","/","/","e","x","a","m","p","l","e",".","c","o","m","/","r","e","f","e","r","e","n","c","e","-","g","u","i","d","e","-","t","h","a","t","-","i","s","-","q","u","i","t","e","-","l","o","n","g","-","i","n","d","e","e","d",")"," ","n","o","w">> }

MessageTexts ==
    { JoinLines(ls) : ls \in UNION { [1..n -> LineSamples] : n \in 1..MaxLines } }

ParseInit ==
    /\ ChatInit
    /\ content \in MessageTexts
    /\ parts = <<>>
    /\ parsePc = "idle"
    /\ NoImage

\* useMemo(() => parseMessageContent(message.content), [message.content])
RenderMessage ==
    /\ parsePc = "idle"
    /\ parts' = parseMessageContent(content)
    /\ parsePc' = "done"
    /\ UNCHANGED <<content, chatVars, imageVars>>

ParseNext == RenderMessage

SpecParse == ParseInit /\ [][ParseNext]_vars

(***************************************************************************)
(* StableImageEmbed: one <img> element, its load and error events and the   *)
(* reloads its onError handler schedules                                   *)
(***************************************************************************)
MaxRetries == 2
RetryDelay == 1000

TicksPerRetryDelay == 4   \* clock steps per retry delay

RetryTickMs == RetryDelay \div TicksPerRetryDelay

\* Number to string conversion of `"retry=" + (retryCount + 1)`.
RECURSIVE DecimalString(_)
DecimalString(n) ==
    IF n < 10 THEN <<Digits[n + 1]>>
    ELSE DecimalString(n \div 10) \o <<Digits[(n % 10) + 1]>>

EmbedImageExtensions == ImageExtensions \cup { <<"t","i","f","f">>, <<"a","v","i","f">> }

\* /\.(jpg|jpeg|png|gif|webp|svg|bmp|tiff|avif)(\?.*)?$/i.test(url)
EmbedExtensionTest(url) ==
    \E p \in 1..Len(url), ext \in EmbedImageExtensions :
        /\ url[p] = "."
        /\ p + Len(ext) <= Len(url)
        /\ LowerStr(SubSeq(url, p + 1, p + Len(ext))) = ext
        /\ \/ EndOfInput(url, p + Len(ext) + 1)
           \/ /\ p + Len(ext) + 1 <= Len(url)
              /\ url[p + Len(ext) + 1] = "?"
              /\ \A k \in (p + Len(ext) + 2)..Len(url) : url[k] \notin LineTerminators

\* The useMemo of isValidImageUrl.
isValidImageUrl(url) ==
    IF url = <<>> \/ Trim(url) = <<>> \/ url = NAText THEN FALSE
    ELSE IF EmbedExtensionTest(url) THEN TRUE
    ELSE IF StartsWithAt(url, 1, <<"d","a","t","a",":","i","m","a","g","e","/">>) THEN TRUE
    ELSE IF StartsWithAt(url, 1, <<"b","l","o","b",":">>) THEN TRUE
    ELSE StartsWithAt(url, 1, <<"h","t","t","p",":","/","/">>) \/ StartsWithAt(url, 1, <<"h","t","t","p","s",":","/","/">>)

\* src + (src.includes("?") ? "&" : "?") + "retry=" + n
RetryUrl(url, n) ==
    url \o (IF Includes(url, <<"?">>) THEN <<"&">> ELSE <<"?">>)
        \o <<"r","e","t","r","y","=">> \o DecimalString(n)

\* Values of the src prop: segments' content as parseMessageContent may pass it.
ImageSources ==
    { <<>>,
      <<" ">>,
      <<"N","/","A">>,
      <<"f","t","p",":","/","/","x","/","a">>,
      <<"h","t","t","p","s",":","/","/","x","/","a",".","p","n","g">>,
      <<"h","t","t","p","s",":","/","/","x","/","a",".","p","n","g","?","w","=","1">>,
      <<"x","/","a",".","A","V","I","F">>,
      <<"d","a","t","a",":","i","m","a","g","e","/","p","n","g",";","b","a","s","e","6","4",",","A","A">>,
      <<"b","l","o","b",":","x">>,
      <<"h","t","t","p",":","/","/","x","/","i">> }

\* The first render of a StableImageEmbed is committed: the state hooks hold
\* their initial values and the <img> element, rendered only for a valid URL,
\* starts fetching src.
ImageInit ==
    /\ ChatInit
    /\ content = <<>>
    /\ parts = <<>>
    /\ parsePc = "idle"
    /\ embedPc = "new"
    /\ src \in ImageSources
    /\ imgIsLoading = TRUE
    /\ hasError = FALSE
    /\ retryCount = 0
    /\ renderedRetryCount = 0
    /\ imgSrc = (IF isValidImageUrl(src) THEN src ELSE <<>>)
    /\ imgRequest = (IF isValidImageUrl(src) THEN "loading" ELSE "idle")
    /\ retryTimers = <<>>
    /\ reloads = 0
    /\ lastImgEvent = "none"

\* useEffect(..., [src, isValidImageUrl]) after the mounting commit; it runs
\* before the element's first event is handled.
MountEffect ==
    /\ embedPc = "new"
    /\ embedPc' = "mounted"
    /\ IF ~isValidImageUrl(src)
       THEN hasError' = TRUE /\ imgIsLoading' = FALSE
       ELSE imgIsLoading' = TRUE /\ hasError' = FALSE
    /\ UNCHANGED <<src, retryCount, renderedRetryCount, imgSrc, imgRequest, retryTimers,
                   reloads, lastImgEvent, chatVars, parseVars>>

\* onLoad: the fetch of imgSrc succeeded.
ImgOnLoad ==
    /\ embedPc = "mounted"
    /\ imgRequest = "loading"
    /\ imgIsLoading' = FALSE
    /\ hasError' = FALSE
    /\ imgRequest' = "idle"
    /\ lastImgEvent' = "load"
    /\ UNCHANGED <<embedPc, src, retryCount, renderedRetryCount, imgSrc, retryTimers,
                   reloads, chatVars, parseVars>>

\* onError with `retryCount <= maxRetries` as its test.
ImgOnErrorOneMore ==
    /\ embedPc = "mounted"
    /\ imgRequest = "loading"
    /\ IF renderedRetryCount <= MaxRetries
       THEN /\ retryCount' = retryCount + 1
            /\ retryTimers' = Append(retryTimers,
                                     [remaining |-> RetryDelay,
                                      url |-> RetryUrl(src, renderedRetryCount + 1)])
            /\ reloads' = reloads + 1
            /\ UNCHANGED <<imgIsLoading, hasError>>
       ELSE /\ imgIsLoading' = FALSE
            /\ hasError' = TRUE
            /\ UNCHANGED <<retryCount, retryTimers, reloads>>
    /\ imgRequest' = "idle"
    /\ lastImgEvent' = "error"
    /\ UNCHANGED <<embedPc, src, renderedRetryCount, imgSrc, chatVars, parseVars>>

\* onError: the fetch of imgSrc failed. The handler reads retryCount and src of
\* the render it was created in.
ImgOnError ==
    /\ embedPc = "mounted"
    /\ imgRequest = "loading"
    /\ IF renderedRetryCount < MaxRetries
       THEN /\ retryCount' = retryCount + 1
            /\ retryTimers' = Append(retryTimers,
                                     [remaining |-> RetryDelay,
                                      url |-> RetryUrl(src, renderedRetryCount + 1)])
            /\ reloads' = reloads + 1
            /\ UNCHANGED <<imgIsLoading, hasError>>
       ELSE /\ imgIsLoading' = FALSE
            /\ hasError' = TRUE
            /\ UNCHANGED <<retryCount, retryTimers, reloads>>
    /\ imgRequest' = "idle"
    /\ lastImgEvent' = "error"
    /\ UNCHANGED <<embedPc, src, renderedRetryCount, imgSrc, chatVars, parseVars>>

\* The render that setRetryCount asked for is committed: the element gets the
\* onError closure of the new render. The src prop of <img> is unchanged, so
\* the src attribute stays as it is.
Rerender ==
    /\ embedPc = "mounted"
    /\ renderedRetryCount # retryCount
    /\ renderedRetryCount' = retryCount
    /\ UNCHANGED <<embedPc, src, imgIsLoading, hasError, retryCount, imgSrc, imgRequest,
                   retryTimers, reloads, lastImgEvent, chatVars, parseVars>>

\* Time passes; a pending render and a timer that is due run before it passes further.
ImgTick ==
    /\ retryTimers # <<>>
    /\ \A i \in 1..Len(retryTimers) : retryTimers[i].remaining > 0
    /\ renderedRetryCount = retryCount
    /\ retryTimers' = [i \in 1..Len(retryTimers) |->
                          [retryTimers[i] EXCEPT !.remaining = Max(0, @ - RetryTickMs)]]
    /\ UNCHANGED <<embedPc, src, imgIsLoading, hasError, retryCount, renderedRetryCount,
                   imgSrc, imgRequest, reloads, lastImgEvent, chatVars, parseVars>>

\* The setTimeout callback: img.src = <retry url>, which starts a new fetch.
RetryTimerExpired ==
    /\ retryTimers # <<>>
    /\ retryTimers[1].remaining = 0
    /\ imgSrc' = retryTimers[1].url
    /\ imgRequest' = "loading"
    /\ retryTimers' = Tail(retryTimers)
    /\ UNCHANGED <<embedPc, src, imgIsLoading, hasError, retryCount, renderedRetryCount,
                   reloads, lastImgEvent, chatVars, parseVars>>

ImageNext ==
    \/ MountEffect
    \/ ImgOnLoad
    \/ ImgOnError
    \/ Rerender
    \/ ImgTick
    \/ RetryTimerExpired

SpecImage == ImageInit /\ [][ImageNext]_vars

(***************************************************************************)
(* Claims about the chat page (checked under Spec)                         *)
(***************************************************************************)
\* A step in which a fetch settles.
Settles == Len(requests') < Len(requests)

\* A step in which sendMessage issues a POST /chat.
Posts == Len(requests') > Len(requests)

\* C1: at most one POST /chat is in flight at any time, also when the input text
\* changes between two submit triggers inside the debounce window.
C1_AtMostOneInFlight == Len(requests) <= 1

\* C2: the submit triggers of one burst (each less than the debounce window after
\* the previous one) lead to at most one network call, whether or not the input
\* text changes between them.
C2_BurstCoalesced == burstPosts <= 1

\* C3: in every reachable state the busy flag isLoading is true if and only if
\* a request is pending.
C3_BusyIffPending == isLoading <=> (requests # <<>>)

\* C4: when a request fails (non-2xx, JSON parse failure, transport error) exactly
\* one assistant message with the fixed apology text is appended, the earlier
\* messages stay as they were and in order, and the busy flag is cleared.
C4_FailureAppendsApology ==
    [][ (Settles /\ outcome' \in FailureKinds)
          => /\ messages' = Append(messages, Message(ApologyText, FALSE))
             /\ isLoading' = FALSE ]_vars

\* C4 witness: a request failed while the conversation already held earlier turns.
C4_Witness ==
    /\ outcome \in {"http_error", "parse_error", "transport_error"}
    /\ Len(messages) = 4
    /\ messages[4] = Message(ApologyText, FALSE)
    /\ messages[3].isUser
    /\ ~isLoading

\* C5: a failed request leaves the stored sessionId unchanged, and every request
\* sendMessage issues carries the session id returned by the most recent
\* successfully settled response ("" when none has succeeded yet).
C5_SessionCarried ==
    [][ /\ (Settles /\ outcome' \in FailureKinds) => sessionId' = sessionId
        /\ Posts => requests'[Len(requests')].session_id = lastOkSid ]_vars

\* The texts an assistant message may carry: a reply text, the fallback, the apology.
AssistantTexts == (ReplyTexts \ {<<>>}) \cup {FallbackText, ApologyText}

\* How many of the first n messages are the user's, and how many the assistant's.
UserCount(n) == Cardinality({k \in 1..n : messages[k].isUser})
AssistantCount(n) == Cardinality({k \in 1..n : ~messages[k].isUser})

\* Every assistant message stands after a user message of its own, and the user
\* messages without an assistant message are those of the pending requests.
MessagesPaired ==
    /\ \A n \in 0..Len(messages) : AssistantCount(n) <= UserCount(n)
    /\ UserCount(Len(messages)) = AssistantCount(Len(messages)) + Len(requests)

\* A step lengthens messages by one message or leaves it as it is: a run of
\* sendMessage past its guard appends the user message it posts, a settling
\* request appends one assistant message, no other step touches the list.
MessagesAppendOnly ==
    /\ Posts => /\ Len(requests') = Len(requests) + 1
                /\ messages' = Append(messages, Message(requests'[Len(requests')].query, TRUE))
    /\ Settles => /\ Len(requests') = Len(requests) - 1
                  /\ \E text \in AssistantTexts : messages' = Append(messages, Message(text, FALSE))
    /\ (~Posts /\ ~Settles) => messages' = messages

\* C12: the message list is append-only and paired: every run of sendMessage that
\* passes its guard appends exactly one user message and, once its request
\* settles, exactly one assistant message (reply text, fallback or apology); no
\* message is removed, reordered or modified, and the assistant message of a
\* request is appended after that request's user message.
C12_AppendOnlyPaired == []MessagesPaired /\ [][MessagesAppendOnly]_vars

\* C12 witness: two requests were pending together and both have settled, the
\* second with the fallback text: two user messages, then two assistant messages.
C12_Witness ==
    /\ requests = <<>>
    /\ Len(messages) = 4
    /\ messages[1].isUser
    /\ messages[2].isUser
    /\ ~messages[3].isUser
    /\ messages[4] = Message(FallbackText, FALSE)

(***************************************************************************)
(* Claims about the content parser (checked under SpecParse)               *)
(***************************************************************************)
SentinelPrefixes == {ImagePrefix, VideoPrefix}

\* line reads `<prefix><value>` with the prefix compared case-insensitively.
HasPrefix(line, prefix) ==
    /\ Len(line) >= Len(prefix)
    /\ LowerStr(SubSeq(line, 1, Len(prefix))) = LowerStr(prefix)

ValueAfter(line, prefix) == SubSeq(line, Len(prefix) + 1, Len(line))

\* An `Image URL: N/A` or `Video URL: N/A` line: the trimmed value is the literal N/A.
IsNALine(line) ==
    \E prefix \in SentinelPrefixes :
        HasPrefix(line, prefix) /\ Trim(ValueAfter(line, prefix)) = NAText

NotNALine(line) == ~IsNALine(line)

WithoutNALines(text) == JoinLines(SelectSeq(SplitLines(text), NotNALine))

\* C6: an `Image URL: N/A` or `Video URL: N/A` line is dropped wherever it occurs:
\* the segments are those of the text without these lines, and no segment
\* contains the text of such a line.
C6_NALinesDropped ==
    parsePc = "done" =>
        /\ parts = parseMessageContent(WithoutNALines(content))
        /\ \A i \in 1..Len(parts), k \in 1..Len(SplitLines(content)) :
              IsNALine(SplitLines(content)[k])
                  => ~Includes(parts[i].content, Trim(SplitLines(content)[k]))

HasSentinelLine(text) ==
    \E k \in 1..Len(SplitLines(text)), prefix \in SentinelPrefixes :
        HasPrefix(SplitLines(text)[k], prefix)

HasUrl(text) == Includes(text, <<"h","t","t","p",":","/","/">>) \/ Includes(text, <<"h","t","t","p","s",":","/","/">>)

HasMarkdownLink(text) ==
    \E i \in 1..Len(text), j \in 1..(Len(text) - 1) :
        i < j /\ text[i] = "[" /\ text[j] = "]" /\ text[j + 1] = "("

\* The input with the bold and italic substitutions applied.
Emphasised(text) == ReplaceItalic(ReplaceBold(text))

\* C7 as stated: an input with no sentinel lines and no URLs gives exactly one text
\* segment whose content is the input with the emphasis substitutions applied
\* (inputs of white space only are left aside here).
C7_Original ==
    (parsePc = "done" /\ ~HasSentinelLine(content) /\ ~HasUrl(content) /\ Trim(content) # <<>>)
        => parts = <<TextPart(Emphasised(content))>>

\* C7 amended: an input with a non-white-space character, no sentinel lines, no
\* URLs and no markdown links gives exactly one text segment; its content is the
\* input followed by a newline, with the emphasis substitutions applied, every
\* newline turned into <br/>, and surrounding white space trimmed. An input of
\* white space only gives no segment.
C7_PlainTextOneSegment ==
    /\ (parsePc = "done" /\ Trim(content) = <<>>) => parts = <<>>
    /\ (/\ parsePc = "done"
        /\ ~HasSentinelLine(content)
        /\ ~HasUrl(content)
        /\ ~HasMarkdownLink(content)
        /\ Trim(content) # <<>>)
          => parts = <<TextPart(Trim(ReplaceNewlines(Emphasised(content \o <<"\n">>))))>>

\* C7 witness: two lines of plain text with emphasis and leading white space were parsed.
C7_Witness ==
    /\ parsePc = "done"
    /\ content = JoinLines(<< <<" ","a","*","b">>, <<"*","*","b","*","*"," ","*","i","*">> >>)
    /\ Len(parts) = 1
    /\ parts[1].type = "text"

SeeDocsText == <<"S","e","e"," ","[","d","o","c","s","]","(","h","t","t","p","s",":","/","/","e","x","a","m","p","l","e",".","c","o","m","/","r","e","f","e","r","e","n","c","e","-","g","u","i","d","e","-","t","h","a","t","-","i","s","-","q","u","i","t","e","-","l","o","n","g","-","i","n","d","e","e","d",")"," ","n","o","w">>

\* C8: "See [docs](<url>) now" yields three segments in order: the text "See ",
\* a link segment whose url is the URL inside the parentheses and whose display
\* text is its first 47 characters plus "...", and the text " now" (texts are
\* compared up to surrounding white space).
C8_MarkdownLinkSegment ==
    (parsePc = "done" /\ content = SeeDocsText) =>
        /\ Len(parts) = 3
        /\ parts[1].type = "text"
        /\ Trim(parts[1].content) = <<"S", "e", "e">>
        /\ parts[2].type = "link"
        /\ parts[2].url = DocsUrl
        /\ parts[2].linkText = SubSeq(DocsUrl, 1, 47) \o <<".", ".", ".">>
        /\ parts[3].type = "text"

\* What C9 says the segment of a `Video URL: <value>` line is.
IsVideoSegmentFor(seg, value) ==
    IF YoutubeMatch(value) # <<>>
    THEN /\ seg.type = "youtube"
         /\ seg.videoId = YoutubeMatch(value)[1]
         /\ Len(seg.videoId) = 11
    ELSE /\ seg.type = "link"
         /\ seg.url = value
         /\ seg.linkText = IF Len(value) <= 50 THEN value
                           ELSE SubSeq(value, 1, 47) \o <<".", ".", ".">>

TextBefore(text, k) == JoinLines(SubSeq(SplitLines(text), 1, k - 1))
TextAfter(text, k) == JoinLines(SubSeq(SplitLines(text), k + 1, Len(SplitLines(text))))

\* Segments ps are: those of the lines before line k, then one segment seg with
\* IsSeg(seg), then as many segments, of the same types, as the lines after k give.
OneSegmentForLine(ps, text, k, before, after) ==
    /\ Len(ps) = Len(before) + 1 + Len(after)
    /\ SubSeq(ps, 1, Len(before)) = before
    /\ \A j \in 1..Len(after) : ps[Len(before) + 1 + j].type = after[j].type

\* A line the /^Video URL: (.+)$/i test accepts (so its value holds no line
\* terminator) whose value is neither blank nor N/A.
IsVideoLine(line) ==
    /\ SentinelMatch(VideoPrefix, line) # <<>>
    /\ Trim(ValueAfter(line, VideoPrefix)) # NAText
    /\ Trim(ValueAfter(line, VideoPrefix)) # <<>>

MarkdownValue(v) ==
    IF /\ Len(v) >= 4
       /\ v[1] = "["
       /\ v[Len(v)] = ")"
       /\ \E j \in 2..(Len(v) - 2) : v[j] = "]" /\ v[j + 1] = "("
    THEN << SubSeq(v, 2, (CHOOSE j \in 2..(Len(v) - 2) : v[j] = "]" /\ v[j + 1] = "(") - 1),
            SubSeq(v, (CHOOSE j \in 2..(Len(v) - 2) : v[j] = "]" /\ v[j + 1] = "(") + 2, Len(v) - 1) >>
    ELSE <<>>

\* What C10 says the segment of an `Image URL: <value>` line is.
ImageSegmentFor(value) ==
    IF MarkdownValue(Trim(value)) # <<>>
    THEN ImagePart(MarkdownValue(Trim(value))[2], MarkdownValue(Trim(value))[1])
    ELSE ImagePart(Trim(value), DefaultSentinelAlt)

\* C10: an `Image URL: <value>` line whose value is not N/A (and not blank) yields
\* exactly one image segment and nothing else: content the trimmed value and the
\* default alt text for a bare URL; content url and alt text alt for `[alt](url)`.
C10_ImageLineOneSegment ==
    (/\ parsePc = "done"
     /\ Len(SplitLines(content)) = 1
     /\ SentinelMatch(ImagePrefix, content) # <<>>
     /\ Trim(ValueAfter(content, ImagePrefix)) # NAText
     /\ Trim(ValueAfter(content, ImagePrefix)) # <<>>)
        => parts = <<ImageSegmentFor(ValueAfter(content, ImagePrefix))>>

\* The kind C11 gives a URL inside a markdown link: YouTube pattern first, then
\* the image test (extension, `/images/` or `image`), then link.
LinkedUrlKind(url) ==
    IF YoutubeMatch(url) # <<>> THEN "youtube"
    ELSE IF \/ ImageExtensionMatch(url)
            \/ Includes(url, <<"/","i","m","a","g","e","s","/">>)
            \/ Includes(url, <<"i","m","a","g","e">>)
         THEN "image"
    ELSE "link"

\* The kind C11 gives a bare URL: YouTube pattern first, then the extension
\* test, then link.
BareUrlKind(url) ==
    IF YoutubeMatch(url) # <<>> THEN "youtube"
    ELSE IF ImageExtensionMatch(url) THEN "image"
    ELSE "link"

\* The URLs of the markdown links `[text](url)` of text.
MarkdownLinkUrls(text) ==
    { SubSeq(text, j + 2, k - 1) :
        <<j, k>> \in { jk \in (1..Len(text)) \X (1..Len(text)) :
                        /\ jk[1] + 2 < jk[2]
                        /\ text[jk[1]] = "]"
                        /\ text[jk[1] + 1] = "("
                        /\ text[jk[2]] = ")"
                        /\ \A m \in (jk[1] + 2)..(jk[2] - 1) : text[m] \notin WhiteSpace \cup {")"}
                        /\ \E i \in 1..(jk[1] - 1) :
                              text[i] = "[" /\ \A m \in (i + 1)..(jk[1] - 1) : text[m] # "]" } }

\* The bare URLs of a text without markdown links: the runs of non-white-space
\* characters that open with http:// or https://.
BareUrls(text) ==
    { SubSeq(text, q, e) :
        <<q, e>> \in { qe \in (1..Len(text)) \X (1..Len(text)) :
                        /\ qe[1] <= qe[2]
                        /\ UrlStartsAt(text, qe[1])
                        /\ \A m \in qe[1]..qe[2] : text[m] \notin WhiteSpace
                        /\ qe[2] = Len(text) \/ text[qe[2] + 1] \in WhiteSpace
                        /\ \A r \in 1..(qe[1] - 1) :
                              UrlStartsAt(text, r) => \E m \in r..qe[1] : text[m] \in WhiteSpace } }

\* The bare-URL half of C11: in a text without sentinel lines and markdown links
\* every bare URL is emitted as one segment of the kind the precedence gives it,
\* and every segment that is not text has the kind of its content.
C11_BareUrlPrecedence ==
    (parsePc = "done" /\ ~HasSentinelLine(content) /\ ~HasMarkdownLink(content))
        => /\ \A u \in BareUrls(content) :
                \E i \in 1..Len(parts) :
                    parts[i].content = u /\ parts[i].type = BareUrlKind(u)
           /\ \A i \in 1..Len(parts) :
                parts[i].type # "text" => parts[i].type = BareUrlKind(parts[i].content)

\* C11 witness: a bare URL that matches both the YouTube pattern and the image
\* extension test was emitted as a video segment.
C11_Witness ==
    /\ parsePc = "done"
    /\ Len(parts) = 1
    /\ parts[1].type = "youtube"
    /\ YoutubeMatch(parts[1].content) # <<>>
    /\ ImageExtensionMatch(parts[1].content)

\* C11: in a text without sentinel lines every URL is emitted as a segment of the
\* kind the precedence gives it: a URL inside a markdown link is a video segment
\* when it matches the YouTube pattern, otherwise an image segment when it
\* matches the image test (extension, `/images/` or `image`), otherwise a link
\* segment; a bare URL likewise, with the extension test alone as image test.
\* The segment is identified as one of that kind whose content holds the URL.
C11_ClassificationPrecedence ==
    (parsePc = "done" /\ ~HasSentinelLine(content))
        => /\ \A u \in MarkdownLinkUrls(content) :
                \E i \in 1..Len(parts) :
                    Includes(parts[i].content, u) /\ parts[i].type = LinkedUrlKind(u)
           /\ C11_BareUrlPrecedence

(***************************************************************************)
(* Claims about StableImageEmbed (checked under SpecImage)                 *)
(***************************************************************************)
\* A step in which the element reports the end of a fetch: an error, a load.
ImgErrorStep == imgRequest = "loading" /\ imgRequest' = "idle" /\ lastImgEvent' = "error"
ImgLoadStep == imgRequest = "loading" /\ imgRequest' = "idle" /\ lastImgEvent' = "load"

\* A step that schedules a reload, and a step that starts one.
SchedulesReload == Len(retryTimers') > Len(retryTimers)
StartsReload == imgSrc' # imgSrc

\* The address of the n-th reload of url: url with `retry=<n>` appended as a
\* query parameter.
IsRetryAddress(address, url, n) ==
    \E sep \in {"?", "&"} :
        address = url \o <<sep, "r","e","t","r","y","=">> \o <<IF n = 1 THEN "1" ELSE "2">>

\* What C13 says of each step of the element.
ImageStepsBounded ==
    /\ SchedulesReload =>
          /\ ImgErrorStep
          /\ retryTimers' = Append(retryTimers, retryTimers'[Len(retryTimers')])
          /\ retryTimers'[Len(retryTimers')].remaining = 1000
          /\ IsRetryAddress(retryTimers'[Len(retryTimers')].url, src, reloads')
          /\ reloads' = reloads + 1
    /\ StartsReload =>
          /\ retryTimers # <<>>
          /\ retryTimers[1].remaining = 0
          /\ imgSrc' = retryTimers[1].url
    /\ (ImgErrorStep /\ reloads < 2) => (SchedulesReload /\ imgIsLoading' /\ ~hasError')
    /\ (ImgErrorStep /\ reloads = 2) => (~SchedulesReload /\ hasError' /\ ~imgIsLoading')
    /\ ImgLoadStep => (~hasError' /\ ~imgIsLoading')
    /\ (~ImgErrorStep /\ ~SchedulesReload) => reloads' = reloads

\* C13: image loading in StableImageEmbed is bounded. For one image source the
\* component schedules at most maxRetries = 2 reloads, whatever load and error
\* events arrive; each reload starts 1000 ms after its error, from the source
\* with `retry=<n>` appended as a query parameter; the error after the second
\* reload puts the component in the failed state (hasError true, isLoading
\* false), and a successful load at any point puts it in the loaded state
\* (hasError false, isLoading false).
C13_ImageLoadingBounded ==
    /\ [](reloads <= 2 /\ Len(retryTimers) <= 1)
    /\ [][ImageStepsBounded]_vars

\* C13 witness: both reloads of a source that carries a query string failed and the
\* component is in the failed state, the element still at the second retry address.
C13_Witness ==
    /\ embedPc = "mounted"
    /\ Includes(src, <<"?">>)
    /\ reloads = 2
    /\ retryCount = 2
    /\ imgSrc = src \o <<"&","r","e","t","r","y","=","2">>
    /\ lastImgEvent = "error"
    /\ hasError
    /\ ~imgIsLoading
    /\ imgRequest = "idle"
    /\ retryTimers = <<>>

====
